---- MODULE Spec2Model ----
(***************************************************************************)
(* Model of src/client.py: the tool-augmented conversation loop of        *)
(* MCPClient (openai_chat, process_query, chat_loop).                      *)
(*                                                                         *)
(* Text is a sequence of one-character strings.  The session capability   *)
(* (list_tools, call_tool), the model capability (ChatCompletion.acreate) *)
(* and the console (input) are the environment: their replies are drawn   *)
(* from small sets, and each of them may raise.                           *)
(***************************************************************************)
EXTENDS Integers, Sequences, FiniteSets, TLC

\* ------------------------------------------------------------------------
\* Bounds
\* ------------------------------------------------------------------------
\* number of fragments the initial model response is assembled from
MaxFrags == 2
\* number of lines chat_loop reads before the console goes silent
MaxQueries == 2

\* ------------------------------------------------------------------------
\* Characters
\* ------------------------------------------------------------------------
Digits == {"0", "1", "2", "3", "4", "5", "6", "7", "8", "9"}

LowerLetters == {"a", "b", "c", "d", "e", "f", "g", "h", "i", "j", "k", "l", "m",
                 "n", "o", "p", "q", "r", "s", "t", "u", "v", "w", "x", "y", "z"}

UpperLetters == {"A", "B", "C", "D", "E", "F", "G", "H", "I", "J", "K", "L", "M",
                 "N", "O", "P", "Q", "R", "S", "T", "U", "V", "W", "X", "Y", "Z"}

\* \w of the re module
WordChars == LowerLetters \cup UpperLetters \cup Digits \cup {"_"}

\* what str.strip() removes and json skips
Whitespace == {" ", "\n", "\t", "\r"}

\* str.lower() on one character
LowerChar(c) ==
    CASE c = "A" -> "a" [] c = "B" -> "b" [] c = "C" -> "c" [] c = "D" -> "d"
      [] c = "E" -> "e" [] c = "F" -> "f" [] c = "G" -> "g" [] c = "H" -> "h"
      [] c = "I" -> "i" [] c = "J" -> "j" [] c = "K" -> "k" [] c = "L" -> "l"
      [] c = "M" -> "m" [] c = "N" -> "n" [] c = "O" -> "o" [] c = "P" -> "p"
      [] c = "Q" -> "q" [] c = "R" -> "r" [] c = "S" -> "s" [] c = "T" -> "t"
      [] c = "U" -> "u" [] c = "V" -> "v" [] c = "W" -> "w" [] c = "X" -> "x"
      [] c = "Y" -> "y" [] c = "Z" -> "z" [] OTHER -> c

\* str.lower()
Lower(s) == [i \in 1..Len(s) |-> LowerChar(s[i])]

\* str.strip(): drop leading and trailing whitespace
Strip(s) ==
    LET keep == {i \in 1..Len(s) : s[i] \notin Whitespace}
    IN  IF keep = {} THEN <<>>
        ELSE LET lo == CHOOSE i \in keep : \A j \in keep : i <= j
                 hi == CHOOSE i \in keep : \A j \in keep : j <= i
             IN  SubSeq(s, lo, hi)

\* "\n".join(parts)
RECURSIVE Join(_)
Join(parts) ==
    IF parts = <<>> THEN <<>>
    ELSE IF Len(parts) = 1 THEN parts[1]
    ELSE parts[1] \o <<"\n">> \o Join(Tail(parts))

\* ------------------------------------------------------------------------
\* re.findall(r"\[TOOL_CALL: (\w+) (.+?)\]", text)
\* ------------------------------------------------------------------------
tool_call_prefix == <<"[", "T", "O", "O", "L", "_", "C", "A", "L", "L", ":", " ">>

\* the literal "[TOOL_CALL: " stands at position i
PrefixAt(s, i) ==
    /\ i + Len(tool_call_prefix) - 1 <= Len(s)
    /\ \A k \in 1..Len(tool_call_prefix) : s[i + k - 1] = tool_call_prefix[k]

\* end (exclusive) of the longest run of word characters starting at j
RECURSIVE WordEnd(_, _)
WordEnd(s, j) ==
    IF j <= Len(s) /\ s[j] \in WordChars THEN WordEnd(s, j + 1) ELSE j

\* variant: the payload is matched greedily, up to the last "]" of the line
RECURSIVE LazyClose_greedy(_, _)
LazyClose_greedy(s, q) ==
    IF q > Len(s) \/ s[q] = "\n" THEN 0
    ELSE LET later == LazyClose_greedy(s, q + 1)
         IN  IF later # 0 THEN later ELSE IF s[q] = "]" THEN q ELSE 0

\* first q >= from with s[q] = "]" such that no newline stands in p..q-1
\* (. does not match a newline); 0 when there is none
RECURSIVE LazyClose(_, _)
LazyClose(s, q) ==
    IF q > Len(s) THEN 0
    ELSE IF s[q] = "]" THEN q
    ELSE IF s[q] = "\n" THEN 0
    ELSE LazyClose(s, q + 1)

NoMatch == [ok |-> FALSE, name |-> <<>>, args |-> <<>>, end |-> 0]

\* one attempt of the pattern at position i
MatchAt(s, i) ==
    IF ~PrefixAt(s, i) THEN NoMatch
    ELSE LET j == i + Len(tool_call_prefix)
             k == WordEnd(s, j)
             p == k + 1
         IN  IF k = j \/ k > Len(s) \/ s[k] # " " THEN NoMatch
             ELSE IF p > Len(s) \/ s[p] = "\n" THEN NoMatch
             ELSE LET q == LazyClose(s, p + 1)
                  IN  IF q = 0 THEN NoMatch
                      ELSE [ok |-> TRUE, name |-> SubSeq(s, j, k - 1),
                            args |-> SubSeq(s, p, q - 1), end |-> q + 1]

\* the non-overlapping matches from position i on, left to right
RECURSIVE FindAllFrom(_, _)
FindAllFrom(s, i) ==
    IF i > Len(s) THEN <<>>
    ELSE LET m == MatchAt(s, i)
         IN  IF m.ok
             THEN <<[name |-> m.name, args |-> m.args]>> \o FindAllFrom(s, m.end)
             ELSE FindAllFrom(s, i + 1)

FindAll(s) == FindAllFrom(s, 1)

\* ------------------------------------------------------------------------
\* json.loads(text), for the JSON subset over the characters above:
\* objects, arrays, strings without escapes, integers, true, false, null
\* ------------------------------------------------------------------------
\* a decoded value: kind, the lexeme of a scalar, the members of a container
\* (an array element has the empty key)
JsonValue(kind, lex, items) == [kind |-> kind, lex |-> lex, items |-> items]

\* the empty dict {}
EmptyMapping == JsonValue("object", <<>>, <<>>)

ParseFail == [ok |-> FALSE, val |-> JsonValue("null", <<>>, <<>>), next |-> 0]

ParseOk(v, n) == [ok |-> TRUE, val |-> v, next |-> n]

\* first position >= i that holds no whitespace
RECURSIVE SkipWs(_, _)
SkipWs(s, i) ==
    IF i <= Len(s) /\ s[i] \in Whitespace THEN SkipWs(s, i + 1) ELSE i

\* the literal lit stands at position i
LiteralAt(s, i, lit) ==
    /\ i + Len(lit) - 1 <= Len(s)
    /\ \A k \in 1..Len(lit) : s[i + k - 1] = lit[k]

\* position of the closing quote of a string whose content starts at j;
\* 0 when unterminated or when a control character stands in it
RECURSIVE StringEnd(_, _)
StringEnd(s, j) ==
    IF j > Len(s) THEN 0
    ELSE IF s[j] = "\"" THEN j
    ELSE IF s[j] \in {"\n", "\t", "\r"} THEN 0
    ELSE StringEnd(s, j + 1)

\* a string starting at the opening quote at i
ParseString(s, i) ==
    IF i > Len(s) \/ s[i] # "\"" THEN ParseFail
    ELSE LET e == StringEnd(s, i + 1)
         IN  IF e = 0 THEN ParseFail
             ELSE ParseOk(JsonValue("string", SubSeq(s, i + 1, e - 1), <<>>), e + 1)

\* end (exclusive) of the run of digits starting at j
RECURSIVE DigitsEnd(_, _)
DigitsEnd(s, j) ==
    IF j <= Len(s) /\ s[j] \in Digits THEN DigitsEnd(s, j + 1) ELSE j

\* -?(0|[1-9][0-9]*)
ParseNumber(s, i) ==
    LET d == IF i <= Len(s) /\ s[i] = "-" THEN i + 1 ELSE i
        e == IF d <= Len(s) /\ s[d] = "0" THEN d + 1 ELSE DigitsEnd(s, d)
    IN  IF e = d THEN ParseFail
        ELSE ParseOk(JsonValue("number", SubSeq(s, i, e - 1), <<>>), e)

\* dict assignment: a repeated key keeps its place and takes the new value
PutItem(items, key, val) ==
    IF \E n \in 1..Len(items) : items[n].key = key
    THEN [n \in 1..Len(items) |->
             IF items[n].key = key THEN [key |-> key, val |-> val] ELSE items[n]]
    ELSE Append(items, [key |-> key, val |-> val])

RECURSIVE ParseValue(_, _)
RECURSIVE ParseMembers(_, _, _)
RECURSIVE ParseElements(_, _, _)

\* the members of an object after "{" or ",": "key" : value
ParseMembers(s, i, acc) ==
    LET k == ParseString(s, SkipWs(s, i))
    IN  IF ~k.ok THEN ParseFail
        ELSE LET c == SkipWs(s, k.next)
             IN  IF c > Len(s) \/ s[c] # ":" THEN ParseFail
                 ELSE LET v == ParseValue(s, SkipWs(s, c + 1))
                      IN  IF ~v.ok THEN ParseFail
                          ELSE LET n == SkipWs(s, v.next)
                                   acc2 == PutItem(acc, k.val.lex, v.val)
                               IN  IF n > Len(s) THEN ParseFail
                                   ELSE IF s[n] = "}"
                                        THEN ParseOk(JsonValue("object", <<>>, acc2), n + 1)
                                   ELSE IF s[n] = ","
                                        THEN ParseMembers(s, n + 1, acc2)
                                   ELSE ParseFail

\* the elements of an array after "[" or ","
ParseElements(s, i, acc) ==
    LET v == ParseValue(s, SkipWs(s, i))
    IN  IF ~v.ok THEN ParseFail
        ELSE LET n == SkipWs(s, v.next)
                 acc2 == Append(acc, [key |-> <<>>, val |-> v.val])
             IN  IF n > Len(s) THEN ParseFail
                 ELSE IF s[n] = "]"
                      THEN ParseOk(JsonValue("array", <<>>, acc2), n + 1)
                 ELSE IF s[n] = ","
                      THEN ParseElements(s, n + 1, acc2)
                 ELSE ParseFail

\* one JSON value starting at position i (whitespace already skipped)
ParseValue(s, i) ==
    IF i > Len(s) THEN ParseFail
    ELSE IF s[i] = "{"
         THEN LET n == SkipWs(s, i + 1)
              IN  IF n <= Len(s) /\ s[n] = "}"
                  THEN ParseOk(EmptyMapping, n + 1)
                  ELSE ParseMembers(s, i + 1, <<>>)
    ELSE IF s[i] = "["
         THEN LET n == SkipWs(s, i + 1)
              IN  IF n <= Len(s) /\ s[n] = "]"
                  THEN ParseOk(JsonValue("array", <<>>, <<>>), n + 1)
                  ELSE ParseElements(s, i + 1, <<>>)
    ELSE IF s[i] = "\"" THEN ParseString(s, i)
    ELSE IF LiteralAt(s, i, <<"t", "r", "u", "e">>)
         THEN ParseOk(JsonValue("true", <<>>, <<>>), i + 4)
    ELSE IF LiteralAt(s, i, <<"f", "a", "l", "s", "e">>)
         THEN ParseOk(JsonValue("false", <<>>, <<>>), i + 5)
    ELSE IF LiteralAt(s, i, <<"n", "u", "l", "l">>)
         THEN ParseOk(JsonValue("null", <<>>, <<>>), i + 4)
    ELSE ParseNumber(s, i)

\* json.loads: one value, surrounded by optional whitespace, nothing else;
\* ok = FALSE stands for the raised JSONDecodeError
JsonLoads(s) ==
    LET v == ParseValue(s, SkipWs(s, 1))
    IN  IF v.ok /\ SkipWs(s, v.next) > Len(s) THEN v ELSE ParseFail

\* ------------------------------------------------------------------------
\* The environment: console lines, catalogs, model replies, tool results
\* ------------------------------------------------------------------------
quit == <<"q", "u", "i", "t">>

\* the lines input() can deliver: quit, quit in mixed case inside whitespace,
\* and a query that only starts like quit
Lines == { quit,
           <<" ", "Q", "u", "I", "T", "\t">>,
           <<" ", "q", "u", "i", "t", "s">> }

Name1 == <<"t", "1">>
Name2 == <<"t", "2">>

\* a tool as the server describes it (tool.name, tool.description,
\* tool.inputSchema["properties"] as a list of name/type pairs)
Tool1 == [name |-> Name1, description |-> <<"d">>,
          inputSchema |-> <<[k |-> <<"k">>, type |-> <<"i", "n", "t">>]>>]

\* what session.list_tools() can answer (response.tools); Name2 is in neither
Catalogs == { <<>>, <<Tool1>> }

\* argument payloads: an object, a number, an object holding "]" (which the
\* pattern cuts into broken JSON)
ArgsObject == <<"{", "\"", "k", "\"", ":", "1", "}">>
ArgsNumber == <<"5">>
ArgsNested == <<"{", "\"", "k", "\"", ":", "[", "1", "]", "}">>

\* the text [TOOL_CALL: name payload]
Directive(name, payload) == tool_call_prefix \o name \o <<" ">> \o payload \o <<"]">>

\* the pieces a model reply is assembled from; the last one lacks the payload
Fragments == { <<"o", "k">>,
               Directive(Name1, ArgsObject),
               Directive(Name1, ArgsNumber),
               Directive(Name2, ArgsNested),
               tool_call_prefix \o Name1 \o <<"]">> }

\* all concatenations of at most n fragments
RECURSIVE Texts(_)
Texts(n) ==
    IF n = 0 THEN { <<>> }
    ELSE LET shorter == Texts(n - 1)
         IN  shorter \cup { t \o f : t \in shorter, f \in Fragments }

\* the replies of the model to the initial request
InitialReplies == Texts(MaxFrags)

\* the replies of the model to a follow-up request
FollowupReplies == { <<"o", "k">>, Directive(Name1, ArgsNumber) }

\* result.content of a successful call_tool
ToolResults == { <<"r">>, <<"4", "2">> }

\* str(e) of a raised exception
ErrorTexts == { <<"E">> }

\* ------------------------------------------------------------------------
\* openai_chat: the request built from the history
\* ------------------------------------------------------------------------
Message(role, content) == [role |-> role, content |-> content]

\* the fixed instruction text, abbreviated
system_msg_base == <<"S">>

\* "\nAvailable tools and their input schemas:\n", abbreviated
tool_info_header == <<"\n", "A", ":", "\n">>

\* ', '.join(f"{k}: {v['type']}" ...)
RECURSIVE input_fields(_)
input_fields(props) ==
    IF props = <<>> THEN <<>>
    ELSE props[1].k \o <<":", " ">> \o props[1].type
         \o (IF Len(props) > 1 THEN <<",", " ">> \o input_fields(Tail(props)) ELSE <<>>)

\* the "- name: description (Inputs: ...)\n" lines
RECURSIVE tool_lines(_)
tool_lines(tools) ==
    IF tools = <<>> THEN <<>>
    ELSE <<"-", " ">> \o tools[1].name \o <<":", " ">> \o tools[1].description
         \o <<" ", "(">> \o input_fields(tools[1].input_schema) \o <<")", "\n">>
         \o tool_lines(Tail(tools))

\* variant: the tool block is rendered without looking at available_tools
system_msg_always(tools) ==
    system_msg_base \o <<"\n">> \o tool_info_header \o tool_lines(tools)

\* the system message; None and [] both skip the tool block
system_msg(tools) ==
    IF tools # <<>>
    THEN system_msg_base \o <<"\n">> \o tool_info_header \o tool_lines(tools)
    ELSE system_msg_base

\* chat_messages of openai_chat(messages, available_tools); None is <<>>
chat_messages(msgs, tools) == <<Message("system", system_msg(tools))>> \o msgs

\* variant: a catalog captured once is used instead of the fetched one
available_tools_of_cached(tools) ==
    <<[name |-> Tool1.name, description |-> Tool1.description,
       input_schema |-> Tool1.inputSchema]>>

\* the list comprehension of process_query over response.tools
available_tools_of(tools) ==
    [n \in 1..Len(tools) |->
        [name |-> tools[n].name, description |-> tools[n].description,
         input_schema |-> tools[n].inputSchema]]

\* variant: the except branch leaves tool_args at what the failed parse gave
tool_args_of_nofallback(tool_args_str) == JsonLoads(tool_args_str).val

\* json.loads(tool_args_str) with the except branch: {} when it raises
tool_args_of(tool_args_str) ==
    LET r == JsonLoads(tool_args_str)
    IN  IF r.ok THEN r.val ELSE EmptyMapping

\* f"[Tool {tool_name} executed]"
tool_marker(tool_name) ==
    <<"[", "T", "o", "o", "l", " ">> \o tool_name
    \o <<" ", "e", "x", "e", "c", "u", "t", "e", "d", "]">>

\* str(result.content): the content list printed in brackets
str_content(content) == <<"[">> \o content \o <<"]">>

\* ------------------------------------------------------------------------
\* State
\* ------------------------------------------------------------------------
VARIABLES
    pc,               \* where chat_loop / process_query stands
    nQueries,         \* iterations of the while loop started so far
    failed,           \* calls of process_query that ended by raising
    line,             \* the raw line of the last input()
    query,            \* query = input(...).strip()
    messages,         \* the history of process_query
    available_tools,  \* the catalog fetched by this process_query
    request,          \* chat_messages of the latest openai_chat
    text_response,    \* the initial reply
    matches,          \* re.findall(tool_call_pattern, text_response)
    idx,              \* position of the for loop in matches (0 before it)
    final_text,       \* the transcript segments
    trace,            \* the capability calls of this iteration, as events
    ret,              \* <<value>> returned by process_query, <<>> if none
    printed           \* what this iteration of chat_loop printed

vars == <<pc, nQueries, failed, line, query, messages, available_tools, request,
          text_response, matches, idx, final_text, trace, ret, printed>>

\* a capability call starting, returning (end) or raising (fail)
Event(op, phase, name, args, reply) ==
    [op |-> op, phase |-> phase, name |-> name, args |-> args, reply |-> reply]

\* await <op>(...) is entered
started(tr, op, name, args) == Append(tr, Event(op, "start", name, args, <<>>))

\* the awaited call returns reply (response.tools, the reply text, or
\* result.content)
ended(tr, op, reply) == Append(tr, Event(op, "end", <<>>, EmptyMapping, reply))

\* variant: a raising call is issued once more
raised_retry(tr, op, e) ==
    Append(Append(tr, Event(op, "fail", <<>>, EmptyMapping, e)),
           Event(op, "start", <<>>, EmptyMapping, <<>>))

\* the awaited call raises: nothing in process_query catches it
raised(tr, op, e) == Append(tr, Event(op, "fail", <<>>, EmptyMapping, e))

NothingPrinted == [kind |-> "none", text |-> <<>>]

\* print("\n" + response)
print_response(response) == [kind |-> "response", text |-> <<"\n">> \o response]

\* print(f"\nError: {str(e)}")
print_error(e) ==
    [kind |-> "error", text |-> <<"\n", "E", "r", "r", "o", "r", ":", " ">> \o e]

\* variant: the comparison forgets .lower()
is_quit_cased(q) == q = quit

\* variant: any line starting with quit leaves the loop
is_quit_prefix(q) == Len(q) >= 4 /\ SubSeq(Lower(q), 1, 4) = quit

\* the test of the quit branch
is_quit(q) == Lower(q) = quit

\* variant: the except branch leaves the loop
pc_after_except_break == "exited"

\* the except branch of chat_loop ends the iteration; while True goes on
pc_after_except == "read"

\* variant: the raise is swallowed and the segments so far are returned
ret_on_raise_partial(segments) == <<Join(segments)>>

\* an exception leaving process_query carries no return value
ret_on_raise(segments) == <<>>

\* variant: the for loop walks matches from the right
directive_at_reversed(ms, i) == ms[Len(ms) + 1 - i]

\* the element the for loop hands out at its i-th pass
directive_at(ms, i) == ms[i]

\* variant: the for loop stops one pass early
has_next_short(ms, i) == i + 1 < Len(ms)

\* the for loop has another pass after the i-th
has_next(ms, i) == i < Len(ms)

\* variant: the follow-up is put in front
append_followup_front(segments, text) == <<text>> \o segments

\* variant: the loop hands out the same directive again
next_idx_stuck(i) == i

\* the for loop moves on to the next element of matches
next_idx(i) == i + 1

\* final_text.append(followup_text)
append_followup(segments, text) == Append(segments, text)

\* variant: every segment is terminated by a newline
return_value_terminated(segments) == Join(segments) \o <<"\n">>

\* return "\n".join(final_text)
return_value(segments) == Join(segments)

\* variant: only a tool named in the catalog of the model is dispatched
start_call_tool_known(tr, ms, i) ==
    IF directive_at(ms, i).name = Name1
    THEN started(tr, "call_tool", directive_at(ms, i).name,
                 tool_args_of(directive_at(ms, i).args))
    ELSE tr

\* variant: the history lives on the client and is never reseeded
seed_history_kept(q) == messages \o <<Message("user", q)>>

\* messages = [{"role": "user", "content": query}]
seed_history(q) == <<Message("user", q)>>

\* variant: the result is appended before the marker
append_tool_result_swapped(msgs, tool_name, content) ==
    msgs \o <<Message("user", str_content(content)),
              Message("assistant", tool_marker(tool_name))>>

\* variant: the history is rebuilt from the latest tool result alone
append_tool_result_rebuilt(msgs, tool_name, content) ==
    <<Message("assistant", tool_marker(tool_name)),
      Message("user", str_content(content))>>

\* variant: the marker is forgotten
append_tool_result_nomarker(msgs, tool_name, content) ==
    Append(msgs, Message("user", str_content(content)))

\* the two messages.append(...) after a tool call
append_tool_result(msgs, tool_name, content) ==
    msgs \o <<Message("assistant", tool_marker(tool_name)),
              Message("user", str_content(content))>>

\* await self.session.call_tool(tool_name, tool_args) for the i-th directive
start_call_tool(tr, ms, i) ==
    started(tr, "call_tool", directive_at(ms, i).name,
            tool_args_of(directive_at(ms, i).args))

Init ==
    /\ pc = "read"
    /\ nQueries = 0
    /\ failed = 0
    /\ line = <<>>
    /\ query = <<>>
    /\ messages = <<>>
    /\ available_tools = <<>>
    /\ request = <<>>
    /\ text_response = <<>>
    /\ matches = <<>>
    /\ idx = 0
    /\ final_text = <<>>
    /\ trace = <<>>
    /\ ret = <<>>
    /\ printed = NothingPrinted

\* a new iteration of while True: the locals of the previous one are gone
FreshIteration ==
    /\ available_tools' = <<>>
    /\ request' = <<>>
    /\ text_response' = <<>>
    /\ matches' = <<>>
    /\ idx' = 0
    /\ final_text' = <<>>
    /\ ret' = <<>>
    /\ printed' = NothingPrinted

\* chat_loop: input() delivers l; quit breaks, anything else enters
\* process_query up to its first await (session.list_tools)
ReadLine(l) ==
    /\ pc = "read"
    /\ nQueries < MaxQueries
    /\ nQueries' = nQueries + 1
    /\ line' = l
    /\ query' = Strip(l)
    /\ FreshIteration
    /\ UNCHANGED failed
    /\ IF is_quit(Strip(l))
       THEN /\ pc' = "exited"
            /\ messages' = <<>>
            /\ trace' = <<>>
       ELSE /\ pc' = "list_tools"
            /\ messages' = seed_history(Strip(l))
            /\ trace' = started(<<>>, "list_tools", <<>>, EmptyMapping)

\* chat_loop: input() itself raises an Exception (EOFError)
ReadRaises(e) ==
    /\ pc = "read"
    /\ nQueries < MaxQueries
    /\ nQueries' = nQueries + 1
    /\ line' = <<>>
    /\ query' = <<>>
    /\ messages' = <<>>
    /\ trace' = <<>>
    /\ available_tools' = <<>>
    /\ request' = <<>>
    /\ text_response' = <<>>
    /\ matches' = <<>>
    /\ idx' = 0
    /\ final_text' = <<>>
    /\ ret' = <<>>
    /\ printed' = print_error(e)
    /\ UNCHANGED failed
    /\ pc' = pc_after_except

\* chat_loop: input() is interrupted (KeyboardInterrupt, a BaseException):
\* except Exception does not catch it and it leaves chat_loop
ReadInterrupted ==
    /\ pc = "read"
    /\ nQueries < MaxQueries
    /\ nQueries' = nQueries + 1
    /\ line' = <<>>
    /\ query' = <<>>
    /\ messages' = <<>>
    /\ trace' = <<>>
    /\ FreshIteration
    /\ UNCHANGED failed
    /\ pc' = "aborted"

\* list_tools returns: build available_tools, issue the initial openai_chat
ListToolsReturns(tools) ==
    /\ pc = "list_tools"
    /\ available_tools' = available_tools_of(tools)
    /\ request' = chat_messages(messages, available_tools_of(tools))
    /\ trace' = started(ended(trace, "list_tools", tools), "chat", <<>>, EmptyMapping)
    /\ pc' = "initial"
    /\ UNCHANGED <<nQueries, failed, line, query, messages, text_response,
                   matches, idx, final_text, ret, printed>>

\* the initial reply arrives: parse it; without a match return it, otherwise
\* decode the first directive and issue its call_tool
InitialReturns(text) ==
    /\ pc = "initial"
    /\ text_response' = text
    /\ matches' = FindAll(text)
    /\ final_text' = <<text>>
    /\ IF FindAll(text) = <<>>
       THEN /\ idx' = 0
            /\ trace' = ended(trace, "chat", text)
            /\ ret' = <<return_value(<<text>>)>>
            /\ printed' = print_response(return_value(<<text>>))
            /\ pc' = "read"
       ELSE /\ idx' = 1
            /\ trace' = start_call_tool(ended(trace, "chat", text), FindAll(text), 1)
            /\ pc' = "call_tool"
            /\ UNCHANGED <<ret, printed>>
    /\ UNCHANGED <<nQueries, failed, line, query, messages, available_tools, request>>

\* call_tool returns: append marker and result, issue the follow-up openai_chat
CallToolReturns(content) ==
    /\ pc = "call_tool"
    /\ LET history == append_tool_result(messages, directive_at(matches, idx).name,
                                         content)
       IN  /\ messages' = history
           /\ request' = chat_messages(history, <<>>)
    /\ trace' = started(ended(trace, "call_tool", content), "chat", <<>>, EmptyMapping)
    /\ pc' = "followup"
    /\ UNCHANGED <<nQueries, failed, line, query, available_tools, text_response,
                   matches, idx, final_text, ret, printed>>

\* a follow-up reply arrives: append it; next directive, or return the join
FollowupReturns(text) ==
    /\ pc = "followup"
    /\ final_text' = append_followup(final_text, text)
    /\ IF has_next(matches, idx)
       THEN /\ idx' = next_idx(idx)
            /\ trace' = start_call_tool(ended(trace, "chat", text), matches, next_idx(idx))
            /\ pc' = "call_tool"
            /\ UNCHANGED <<ret, printed>>
       ELSE /\ idx' = idx
            /\ trace' = ended(trace, "chat", text)
            /\ ret' = <<return_value(append_followup(final_text, text))>>
            /\ printed' = print_response(return_value(append_followup(final_text, text)))
            /\ pc' = "read"
    /\ UNCHANGED <<nQueries, failed, line, query, messages, available_tools,
                   request, text_response, matches>>

\* an exception propagates out of process_query into the except of chat_loop
Unwind(op, e) ==
    /\ trace' = raised(trace, op, e)
    /\ ret' = ret_on_raise(final_text)
    /\ printed' = print_error(e)
    /\ failed' = failed + 1
    /\ pc' = pc_after_except
    /\ UNCHANGED <<nQueries, line, query, messages, available_tools, request,
                   text_response, matches, idx, final_text>>

\* session.list_tools() raises
ListToolsRaises(e) ==
    /\ pc = "list_tools"
    /\ Unwind("list_tools", e)

\* openai_chat raises, on the initial or on a follow-up request
ChatRaises(e) ==
    /\ pc \in {"initial", "followup"}
    /\ Unwind("chat", e)

\* session.call_tool() raises
CallToolRaises(e) ==
    /\ pc = "call_tool"
    /\ Unwind("call_tool", e)

Next ==
    \/ \E l \in Lines : ReadLine(l)
    \/ \E e \in ErrorTexts : ReadRaises(e)
    \/ ReadInterrupted
    \/ \E tools \in Catalogs : ListToolsReturns(tools)
    \/ \E e \in ErrorTexts : ListToolsRaises(e)
    \/ \E text \in InitialReplies : InitialReturns(text)
    \/ \E content \in ToolResults : CallToolReturns(content)
    \/ \E text \in FollowupReplies : FollowupReturns(text)
    \/ \E e \in ErrorTexts : ChatRaises(e)
    \/ \E e \in ErrorTexts : CallToolRaises(e)

Spec == Init /\ [][Next]_vars

\* an awaited capability call raises
CallRaises ==
    \/ \E e \in ErrorTexts : ListToolsRaises(e)
    \/ \E e \in ErrorTexts : ChatRaises(e)
    \/ \E e \in ErrorTexts : CallToolRaises(e)

\* the loop under the assumption that no awaited capability call hangs: a
\* raise is possible exactly while a call is awaited, and a return ends that
\* as well, so the fairness excludes only waiting for ever at an await
FairSpec == Spec /\ WF_vars(CallRaises)

\* ------------------------------------------------------------------------
\* Reading the state
\* ------------------------------------------------------------------------
\* process_query has returned its transcript to chat_loop
Done == pc = "read" /\ printed.kind = "response"

\* the events of one kind, in order
EventsOf(op, phase) == SelectSeq(trace, LAMBDA e : e.op = op /\ e.phase = phase)

\* the position in trace of the n-th event of one kind
PosOf(op, phase, n) ==
    LET S == {p \in 1..Len(trace) : trace[p].op = op /\ trace[p].phase = phase}
    IN  CHOOSE p \in S : Cardinality({q \in S : q <= p}) = n

\* capability calls started and neither returned nor raised
InFlight ==
    Cardinality({p \in 1..Len(trace) : trace[p].phase = "start"})
    - Cardinality({p \in 1..Len(trace) : trace[p].phase # "start"})

\* the initial reply has arrived
HasInitial == final_text # <<>>

\* no position of the text starts a directive token
NoDirective(text) == \A i \in 1..Len(text) : ~MatchAt(text, i).ok

\* the text holds the literal "[TOOL_CALL: " somewhere
MentionsToolCall(text) == \E i \in 1..Len(text) : PrefixAt(text, i)

\* the payload of a directive is a JSON object
WellFormed(m) == JsonLoads(m.args).ok /\ JsonLoads(m.args).val.kind = "object"

\* the payload of a directive does not decode
Undecodable(m) == ~JsonLoads(m.args).ok

\* ------------------------------------------------------------------------
\* Claims
\* ------------------------------------------------------------------------

\* C1: when the initial reply holds no directive token, process_query makes
\* no call_tool call and no follow-up model call and returns exactly the
\* initial reply.
C1_NoDirectiveReturnsInitial ==
    (HasInitial /\ NoDirective(text_response)) =>
        /\ Done
        /\ ret = <<text_response>>
        /\ EventsOf("call_tool", "start") = <<>>
        /\ Len(EventsOf("chat", "start")) = 1

\* a reply that mentions TOOL_CALL without forming a directive was returned
C1_Witness ==
    /\ Done
    /\ NoDirective(text_response)
    /\ MentionsToolCall(text_response)
    /\ ret = <<text_response>>

\* C2: with k well-formed directives and every call succeeding, the returned
\* transcript is the newline join of k+1 segments: the initial reply, then
\* the follow-up received for directive i as segment i+1.
C2_TranscriptSegments ==
    (Done /\ \A i \in 1..Len(matches) : WellFormed(matches[i])) =>
        LET k == Len(matches)
            replies == EventsOf("chat", "end")
        IN  /\ Len(final_text) = k + 1
            /\ Len(replies) = k + 1
            /\ final_text[1] = text_response
            /\ \A i \in 1..k :
                  /\ final_text[i + 1] = replies[i + 1].reply
                  /\ EventsOf("call_tool", "start")[i].name = matches[i].name
                  /\ PosOf("call_tool", "end", i) < PosOf("chat", "end", i + 1)
                  /\ i < k => PosOf("chat", "end", i + 1) < PosOf("call_tool", "start", i + 1)
            /\ ret = <<Join(<<text_response>> \o [i \in 1..k |-> replies[i + 1].reply])>>

\* two well-formed directives were answered by two different follow-ups
C2_Witness ==
    /\ Done
    /\ Len(matches) = 2
    /\ \A i \in 1..Len(matches) : WellFormed(matches[i])
    /\ Len(final_text) = 3
    /\ final_text[2] # final_text[3]

\* C3: a directive whose payload does not decode is still dispatched, with
\* the empty mapping; every directive is dispatched with its own decoded
\* arguments, whatever happened to the others.
C3_BadPayloadDoesNotAbort ==
    LET calls == EventsOf("call_tool", "start")
    IN  /\ Len(calls) = idx
        /\ Done => idx = Len(matches)
        /\ \A i \in 1..Len(calls) :
              /\ calls[i].name = matches[i].name
              /\ calls[i].args = IF JsonLoads(matches[i].args).ok
                                 THEN JsonLoads(matches[i].args).val
                                 ELSE EmptyMapping

\* an undecodable directive went out with {} and a later one with its own
\* non-empty arguments
C3_Witness ==
    /\ Done
    /\ Len(matches) = 2
    /\ Undecodable(matches[1])
    /\ EventsOf("call_tool", "start")[1].args = EmptyMapping
    /\ WellFormed(matches[2])
    /\ EventsOf("call_tool", "start")[2].args # EmptyMapping

\* the tool call of the second of two directives has just raised
SecondCallFailed ==
    /\ Len(matches) = 2
    /\ idx = 2
    /\ trace # <<>>
    /\ trace[Len(trace)].op = "call_tool"
    /\ trace[Len(trace)].phase = "fail"

\* C4: when the tool call of the second of two directives fails, the query
\* ends with an error and process_query returns nothing: neither the initial
\* reply nor the first follow-up reaches the caller as a result.
C4_NoPartialTranscript ==
    SecondCallFailed =>
        /\ ret = <<>>
        /\ printed = print_error(trace[Len(trace)].reply)
        /\ Len(final_text) = 2

\* the second call failed after the first follow-up had been collected
C4_Witness ==
    /\ SecondCallFailed
    /\ Len(final_text) = 2
    /\ printed.kind = "error"

\* the names of the tools in the catalog fetched for this query
CatalogNames == {available_tools[n].name : n \in 1..Len(available_tools)}

\* C5: every directive the for loop has reached is dispatched to call_tool
\* under its parsed name, in or out of the fetched catalog; at return all of
\* them have been dispatched.
C5_CatalogNeverFilters ==
    LET calls == EventsOf("call_tool", "start")
    IN  /\ \A i \in 1..idx : i <= Len(calls) /\ calls[i].name = matches[i].name
        /\ Done => \A i \in 1..Len(matches) :
                       \E p \in 1..Len(trace) :
                          /\ trace[p].op = "call_tool"
                          /\ trace[p].phase = "start"
                          /\ trace[p].name = matches[i].name

\* with a non-empty catalog, a tool outside it was called and returned
C5_Witness ==
    /\ Done
    /\ CatalogNames # {}
    /\ \E p \in 1..Len(trace) :
          /\ trace[p].op = "call_tool"
          /\ trace[p].phase = "start"
          /\ trace[p].name \notin CatalogNames

\* C6: in a query that completes without a failure, call_tool is called once
\* per directive and the model once more than that, however many payloads
\* did not decode.
C6_CallCounts ==
    Done =>
        /\ Len(EventsOf("call_tool", "start")) = Len(matches)
        /\ Len(EventsOf("call_tool", "end")) = Len(matches)
        /\ Len(EventsOf("chat", "start")) = Len(matches) + 1
        /\ Len(EventsOf("chat", "end")) = Len(matches) + 1

\* a query with two directives, one of them undecodable, completed
C6_Witness ==
    /\ Done
    /\ Len(matches) = 2
    /\ \E i \in 1..2 : Undecodable(matches[i])
    /\ Len(EventsOf("chat", "end")) = 3

\* the last event of the trace is a raise
LastRaised == trace # <<>> /\ trace[Len(trace)].phase = "fail"

\* C7: when process_query raises (list_tools, model call or tool call),
\* chat_loop reports the error as text and stays in the loop; its next step
\* is another read, and a line other than quit read then is processed.
C7_ErrorsCaughtLoopContinues ==
    [][ /\ (LastRaised' /\ trace' # trace) =>
               /\ pc' = "read"
               /\ printed' = print_error(trace'[Len(trace')].reply)
               /\ failed' = failed + 1
        /\ (LastRaised /\ printed.kind = "error") =>
               /\ pc = "read"
               /\ nQueries' = nQueries + 1
               /\ pc' \in {"read", "list_tools", "exited", "aborted"}
               /\ pc' = "aborted" => (printed'.kind = "none" /\ line' = <<>>)
               /\ pc' = "exited" => Lower(Strip(line')) = quit
               /\ pc' = "list_tools" =>
                      /\ messages' = <<Message("user", Strip(line'))>>
                      /\ trace' = <<Event("list_tools", "start", <<>>, EmptyMapping, <<>>)>>
      ]_vars

\* after a query that raised, a later query ran to its end
C7_Witness ==
    /\ failed >= 1
    /\ Done
    /\ trace # <<>>

\* upper and lower case of the letters of quit
QuitLetters == <<{"q", "Q"}, {"u", "U"}, {"i", "I"}, {"t", "T"}>>

\* the line is the token quit, in any letter case, inside optional whitespace
QuitToken(l) ==
    \E a \in 0..Len(l) :
        /\ a + 4 <= Len(l)
        /\ \A i \in 1..a : l[i] \in Whitespace
        /\ \A i \in 1..4 : l[a + i] \in QuitLetters[i]
        /\ \A i \in (a + 5)..Len(l) : l[i] \in Whitespace

\* a step in which input() delivered a line
LineRead == nQueries' = nQueries + 1 /\ printed'.kind = "none" /\ pc' # "aborted"

\* C8: reading the token quit in any letter case ends chat_loop without a
\* call of process_query; every other line read is forwarded to
\* process_query.
C8_QuitOrForward ==
    [][ /\ LineRead =>
              IF QuitToken(line')
              THEN /\ pc' = "exited"
                   /\ trace' = <<>>
                   /\ messages' = <<>>
              ELSE /\ pc' = "list_tools"
                   /\ messages' = <<Message("user", query')>>
                   /\ trace' = <<Event("list_tools", "start", <<>>, EmptyMapping, <<>>)>>
        /\ pc' = "exited" => (LineRead /\ QuitToken(line'))
      ]_vars

\* the loop ended on quit written in mixed case, without any capability call
C8_Witness ==
    /\ pc = "exited"
    /\ line # quit
    /\ trace = <<>>

\* the calls process_query makes for the directives ms, in order
RECURSIVE ExpectedCalls(_)
ExpectedCalls(ms) ==
    IF ms = <<>> THEN <<>>
    ELSE <<[op |-> "call_tool", name |-> ms[1].name], [op |-> "chat", name |-> <<>>]>>
         \o ExpectedCalls(Tail(ms))

\* list_tools, the initial model call, then one pair per directive
ExpectedOrder(ms) ==
    <<[op |-> "list_tools", name |-> <<>>], [op |-> "chat", name |-> <<>>]>>
    \o ExpectedCalls(ms)

\* C9: the capability calls of a query are strictly sequential and in parse
\* order: list_tools, initial model call, then for each directive its
\* call_tool followed by its follow-up model call; every call has returned
\* before the next one starts, and at most one call is in flight.
C9_SequentialInParseOrder ==
    LET starts == SelectSeq(trace, LAMBDA e : e.phase = "start")
        order == ExpectedOrder(matches)
    IN  /\ InFlight \in {0, 1}
        /\ Len(starts) <= Len(order)
        /\ \A n \in 1..Len(starts) :
              /\ starts[n].op = order[n].op
              /\ starts[n].name = order[n].name
        /\ \A p \in 1..Len(trace) :
              IF p % 2 = 1
              THEN trace[p].phase = "start"
              ELSE trace[p].phase \in {"end", "fail"} /\ trace[p].op = trace[p - 1].op
        /\ Done => Len(starts) = Len(order)

\* two directives naming different tools were called one after the other
C9_Witness ==
    /\ Done
    /\ Len(matches) = 2
    /\ matches[1].name # matches[2].name
    /\ Len(trace) = 12

\* C10: once a tool call or a model call has failed, the query makes no
\* further capability call: no retry, no dispatch of the remaining
\* directives, no further follow-up.
C10_NothingAfterFailure ==
    /\ \A p \in 1..Len(trace) : trace[p].phase = "fail" => p = Len(trace)
    /\ LastRaised =>
          /\ pc = "read"
          /\ InFlight = 0
          /\ Len(EventsOf("call_tool", "start")) = idx
          /\ Len(EventsOf("chat", "start")) = Len(final_text) + 1
                 \/ trace[Len(trace)].op # "chat"

\* the first of two tool calls failed and the second directive stayed behind
C10_Witness ==
    /\ LastRaised
    /\ trace[Len(trace)].op = "call_tool"
    /\ idx = 1
    /\ Len(matches) = 2
    /\ Len(EventsOf("call_tool", "start")) = 1

\* the history after n completed tool calls: the query, then marker and
\* stringified result of each directive in dispatch order
RECURSIVE ExpectedHistory(_)
ExpectedHistory(n) ==
    IF n = 0 THEN <<Message("user", query)>>
    ELSE ExpectedHistory(n - 1)
         \o <<Message("assistant", tool_marker(matches[n].name))>>
         \o <<Message("user", str_content(EventsOf("call_tool", "end")[n].reply))>>

\* C11: after call_tool of directive i succeeds and before follow-up i is
\* issued, the assistant marker and then the user-role result are appended;
\* the history sent with follow-up i is the query followed by the pairs of
\* directives 1..i, and its only assistant messages are markers (the initial
\* reply is never put into it).
C11_HistoryAtFollowup ==
    trace # <<>> =>
        LET n == Len(EventsOf("call_tool", "end"))
        IN  /\ messages = ExpectedHistory(n)
            /\ Len(messages) = 1 + 2 * n
            /\ pc = "followup" =>
                  /\ n = idx
                  /\ Len(request) = 2 + 2 * idx
                  /\ \A k \in 1..Len(messages) : request[k + 1] = messages[k]
            /\ \A k \in 1..Len(messages) :
                  messages[k].role = "assistant" =>
                      /\ k % 2 = 0
                      /\ messages[k].content = tool_marker(matches[k \div 2].name)

\* the second follow-up is in flight with two different (marker, result) pairs
C11_Witness ==
    /\ pc = "followup"
    /\ idx = 2
    /\ Len(messages) = 5
    /\ messages[2] # messages[4]
    /\ messages[3] # messages[5]

\* a is an initial part of b
IsPrefix(a, b) == Len(a) <= Len(b) /\ \A k \in 1..Len(a) : a[k] = b[k]

\* a model call is awaited
AwaitingModel == pc \in {"initial", "followup"}

\* C12: within a query the history only grows at its end, and a model call
\* leaves it as it was: the system message is in the request only.
C12_HistoryAppendOnly ==
    [][ /\ nQueries' = nQueries => IsPrefix(messages, messages')
        /\ (AwaitingModel /\ nQueries' = nQueries) => messages' = messages
        /\ AwaitingModel' =>
              /\ Len(request') = Len(messages') + 1
              /\ request'[1].role = "system"
              /\ \A k \in 1..Len(messages') :
                    /\ request'[k + 1] = messages'[k]
                    /\ messages'[k].role # "system"
      ]_vars

\* a query with two tool calls completed with its five history entries
C12_Witness ==
    /\ Done
    /\ Len(messages) = 5
    /\ Len(request) = 6

\* the text holds the header of the tool block
HasToolBlock(text) ==
    \E i \in 1..Len(text) :
        /\ i + Len(tool_info_header) - 1 <= Len(text)
        /\ \A k \in 1..Len(tool_info_header) : text[i + k - 1] = tool_info_header[k]

\* the request is one system message followed by the history
OneSystemThenHistory ==
    /\ Len(request) = Len(messages) + 1
    /\ request[1].role = "system"
    /\ \A k \in 1..Len(messages) :
          request[k + 1] = messages[k] /\ messages[k].role # "system"

\* C13 as stated: every request is one system message followed by the
\* history; the initial one, built with the fetched catalog, has the tool
\* block; every follow-up one has none.
C13_ToolBlockWhenCatalogSupplied ==
    /\ AwaitingModel => OneSystemThenHistory
    /\ pc = "initial" => HasToolBlock(request[1].content)
    /\ pc = "followup" => ~HasToolBlock(request[1].content)

\* C13 amended: the initial request has the tool block exactly when the
\* fetched catalog is not empty (an empty catalog gives the bare system
\* message); every follow-up request has none.
C13_ToolBlockWhenCatalogNonEmpty ==
    /\ AwaitingModel => OneSystemThenHistory
    /\ pc = "initial" =>
          /\ HasToolBlock(request[1].content) <=> available_tools # <<>>
          /\ available_tools = <<>> => request[1].content = system_msg_base
          /\ available_tools # <<>> =>
                request[1].content =
                    system_msg_base \o <<"\n">> \o tool_info_header
                    \o tool_lines(available_tools)
    /\ pc = "followup" => request[1].content = system_msg_base

\* a follow-up request without tool block, in a query whose catalog has a tool
C13_Witness ==
    /\ pc = "followup"
    /\ available_tools # <<>>
    /\ ~HasToolBlock(request[1].content)
    /\ Len(request) = 4

\* C14: process_query fetches the catalog exactly once, before the initial
\* model call, and the initial prompt is built from what that fetch
\* returned, not from anything held from before.
C14_CatalogFetchedPerQuery ==
    trace # <<>> =>
        /\ trace[1].op = "list_tools"
        /\ Len(EventsOf("list_tools", "start")) = 1
        /\ \A p \in 1..Len(trace) : trace[p].op = "chat" => p > 2
        /\ (Len(trace) >= 2 /\ trace[2].phase = "end") =>
              /\ trace[2].op = "list_tools"
              /\ Len(available_tools) = Len(trace[2].reply)
              /\ \A n \in 1..Len(available_tools) :
                    /\ available_tools[n].name = trace[2].reply[n].name
                    /\ available_tools[n].description = trace[2].reply[n].description
                    /\ available_tools[n].input_schema = trace[2].reply[n].inputSchema
              /\ pc = "initial" =>
                    request = chat_messages(messages, available_tools)

\* the second query fetched an empty catalog and prompts without a tool
C14_Witness ==
    /\ nQueries = 2
    /\ pc = "initial"
    /\ Len(trace) = 3
    /\ Len(trace[2].reply) = 0
    /\ available_tools = <<>>
    /\ request = <<Message("system", system_msg_base)>> \o messages

\* a step in which process_query is entered
QueryStarts == nQueries' = nQueries + 1 /\ pc' = "list_tools"

\* C15: every process_query starts from a history of exactly one user message
\* with its own query text and from an empty transcript, whatever the
\* earlier queries left behind; the first history entry stays the query.
C15_QueriesIndependent ==
    [][ /\ QueryStarts =>
              /\ messages' = <<Message("user", Strip(line'))>>
              /\ query' = Strip(line')
              /\ final_text' = <<>>
              /\ text_response' = <<>>
              /\ matches' = <<>>
              /\ idx' = 0
              /\ ret' = <<>>
              /\ trace' = <<Event("list_tools", "start", <<>>, EmptyMapping, <<>>)>>
        /\ messages' # <<>> => messages'[1] = Message("user", query')
      ]_vars

\* a query starts with its one-message history after an earlier one failed
C15_Witness ==
    /\ failed >= 1
    /\ nQueries = 2
    /\ pc = "list_tools"
    /\ messages = <<Message("user", query)>>

\* the least element of a non-empty set of numbers
Least(S) == CHOOSE x \in S : \A y \in S : x <= y

\* the positions at which a directive token starts: the literal prefix, a
\* non-empty run of word characters, one space, then a non-empty text without
\* newline that ends before a "]" and holds no "]" after its first character
TokenStarts(text) ==
    {p \in 1..Len(text) :
        /\ PrefixAt(text, p)
        /\ \E k \in (p + Len(tool_call_prefix) + 1)..Len(text) :
              /\ text[k] = " "
              /\ \A x \in (p + Len(tool_call_prefix))..(k - 1) : text[x] \in WordChars
              /\ \E q \in (k + 2)..Len(text) :
                    /\ text[q] = "]"
                    /\ \A x \in (k + 1)..(q - 1) : text[x] # "\n"}

\* the token starting at p: its name, its raw arguments, the position after it
TokenAt(text, p) ==
    LET j == p + Len(tool_call_prefix)
        k == Least({x \in j..Len(text) : text[x] = " "})
        q == Least({x \in (k + 2)..Len(text) : text[x] = "]"})
    IN  [name |-> SubSeq(text, j, k - 1), args |-> SubSeq(text, k + 1, q - 1),
         end |-> q + 1]

\* the tokens of the text from position from on: always the leftmost start,
\* then on behind its closing bracket
RECURSIVE TokensFrom(_, _)
TokensFrom(text, from) ==
    LET S == {p \in TokenStarts(text) : p >= from}
    IN  IF S = {} THEN <<>>
        ELSE LET t == TokenAt(text, Least(S))
             IN  <<[name |-> t.name, args |-> t.args]>> \o TokensFrom(text, t.end)

\* C16: the parser returns the directives [TOOL_CALL: <name> <payload>] left
\* to right without overlap; the raw arguments of each are the shortest
\* non-empty text after the name that a "]" follows, so a payload holding a
\* "]" is cut there.  Stated of matches where the reply has just been parsed;
\* matches is not assigned again in the query.
C16_NonGreedyParse ==
    (HasInitial /\ Len(final_text) = 1 /\ Len(messages) = 1) =>
        /\ matches = TokensFrom(text_response, 1)
        /\ \A i \in 1..Len(matches) :
              /\ matches[i].name # <<>>
              /\ \A x \in 1..Len(matches[i].name) : matches[i].name[x] \in WordChars
              /\ matches[i].args # <<>>
              /\ \A x \in 2..Len(matches[i].args) : matches[i].args[x] # "]"

\* the nested payload {"k":[1]} was cut at its first "]" and the directive
\* behind it was still found
C16_Witness ==
    /\ HasInitial
    /\ Len(final_text) = 1
    /\ Len(messages) = 1
    /\ Len(matches) = 2
    /\ matches[1].args = <<"{", "\"", "k", "\"", ":", "[", "1">>
    /\ matches[2].args = ArgsObject

\* process_query is waiting at an await
InQuery == pc \in {"list_tools", "initial", "call_tool", "followup"}

\* process_query is over: the transcript was returned or the error reported
QueryOver == pc = "read" /\ printed.kind \in {"response", "error"}

\* the moves of the state machine of process_query
StateMachineStep ==
    /\ pc = "list_tools" => (pc' = "initial" \/ QueryOver')
    /\ pc = "initial" => (pc' = "call_tool" \/ QueryOver')
    /\ pc = "call_tool" => (pc' = "followup" \/ QueryOver')
    /\ pc = "followup" => (pc' = "call_tool" \/ QueryOver')
    /\ (InQuery /\ printed'.kind = "response") =>
           /\ idx = Len(matches')
           /\ Len(final_text') = Len(matches') + 1
    /\ (pc = "followup" /\ pc' = "call_tool") => (idx' = idx + 1 /\ idx' <= Len(matches))
    /\ (pc = "initial" /\ pc' = "call_tool") => (idx' = 1 /\ matches' # <<>>)
    /\ (InQuery /\ ~(pc \in {"initial", "followup"} /\ pc' = "call_tool")) => idx' = idx

C18_ArgumentsAlwaysMapping ==
    \A p \in 1..Len(trace) :
        (trace[p].op = "call_tool" /\ trace[p].phase = "start") =>
            trace[p].args.kind = "object"

\* C19: at the start of every pass of the dispatch loop and at return the
\* transcript and the history are in step: the first segment is the initial
\* reply, and with n segments the history has 1 + 2*(n-1) messages and n-1
\* tool calls have completed.
C19_TranscriptAndHistoryInStep ==
    (pc = "call_tool" \/ Done) =>
        LET n == Len(final_text)
        IN  /\ n >= 1
            /\ final_text[1] = text_response
            /\ Len(messages) = 1 + 2 * (n - 1)
            /\ Len(EventsOf("call_tool", "end")) = n - 1
            /\ pc = "call_tool" => n = idx
            /\ Done => n = Len(matches) + 1

\* the second pass starts with two segments and three history entries
C19_Witness ==
    /\ pc = "call_tool"
    /\ idx = 2
    /\ Len(final_text) = 2
    /\ Len(messages) = 3

\* chat_loop is over
LoopLeft == pc \in {"exited", "aborted"}

\* C20 as stated: the only way out of chat_loop is a line that is quit after
\* trimming and lower-casing; whatever is raised inside an iteration, the
\* read of the line included, is caught and the loop reads again.
C20_QuitIsTheOnlyExit ==
    LoopLeft => (pc = "exited" /\ QuitToken(line))

\* C20 amended: chat_loop is left by a line that is quit after trimming and
\* lower-casing, or by an exception that is no Exception (an interrupted
\* input), which is neither caught nor reported; an Exception raised inside
\* an iteration, by input() as well, is reported and the loop reads again.
C20_ExitsOfChatLoop ==
    [][ /\ (pc' = "exited" /\ pc # "exited") => (LineRead /\ QuitToken(line'))
        /\ (pc' = "aborted" /\ pc # "aborted") =>
               /\ pc = "read"
               /\ printed'.kind = "none"
               /\ line' = <<>>
               /\ trace' = <<>>
        /\ printed'.kind = "error" => pc' = "read"
        /\ LoopLeft => LoopLeft'
      ]_vars

\* input() raised, the error was reported and the loop is reading again
C20_Witness ==
    /\ pc = "read"
    /\ nQueries >= 1
    /\ printed.kind = "error"
    /\ trace = <<>>
    /\ line = <<>>

====
